---- MODULE Spec2Model ----
(***************************************************************************)
(* State-machine model of divisioner (src/src/main.rs): the run of main()  *)
(* from the parsed arguments to process exit.  Every `?` of main() on an   *)
(* operation that creates, reads or writes a file or directory is a fault  *)
(* point: the operation either succeeds or fails, and a failure returns    *)
(* from main() at once, running the destructors of the live values (the    *)
(* open ZipWriter, the csv writer).  Listing a destination directory that  *)
(* exists (read_dir, line 66) is taken to succeed.  The manifest is the    *)
(* sequence of records handed to the csv writer, which its destructor      *)
(* flushes to results.csv.                                                 *)
(*                                                                         *)
(* Paths are sequences of components; file contents are sequences of       *)
(* bytes; an archive is the sequence of entries written into it.           *)
(***************************************************************************)
EXTENDS Integers, Sequences, FiniteSets, TLC

\* ------------------------------------------------------------------ bounds
\* number of files under the source tree that a pattern can match
MaxFiles == 4
\* largest positive --file-count-per-file tried
MaxK == 3
\* most negative --file-count-per-file tried is -MaxNegK
MaxNegK == 1

\* ------------------------------------------------------------ pure helpers
Min(a, b) == IF a <= b THEN a ELSE b

\* Path::join
Join(p, c) == Append(p, c)

\* Path::file_name: the last component
FileName(p) == p[Len(p)]

\* the directory a path lives in
Parent(p) == SubSeq(p, 1, Len(p) - 1)

\* args.dst
Dst == <<"work", "out">>

\* the k-th file of the source tree: two files per directory, so that files
\* of different directories share base names
SourcePath(k) == <<"d" \o ToString((k - 1) \div 2), "f" \o ToString((k - 1) % 2)>>

\* its bytes on disk (lengths 0, 1 and 2 occur; no byte is zero)
SourceBytes(k) == [b \in 1..(k % 3) |-> k + b]

SourceIds == 1..MaxFiles

BytesOf(p) == SourceBytes(CHOOSE k \in SourceIds : SourcePath(k) = p)

\* glob yields the matched paths in sorted order, each once
SortedPaths(S) ==
    LET ids == CHOOSE s \in [1..Cardinality(S) -> S] :
                   \A a, b \in 1..Cardinality(S) : a < b => s[a] < s[b]
    IN  [n \in 1..Cardinality(S) |-> SourcePath(ids[n])]

\* TLC's integers are 32 bits wide: the modulus of usize is scaled down to
\* 2^30, far above every slice length the model reaches
UsizeModulus == 2 ^ 30

\* `args.file_count_per_file as usize`: the i32 is sign-extended and
\* reinterpreted, i.e. taken modulo the width of usize
AsUsize(k) == k % UsizeModulus

\* slice::chunks: each chunk takes min(len, chunk_size) from the front
RECURSIVE Chunks(_, _)
Chunks(v, size) ==
    IF v = <<>> THEN <<>>
    ELSE LET sz == Min(Len(v), size)
         IN  <<SubSeq(v, 1, sz)>> \o Chunks(SubSeq(v, sz + 1, Len(v)), size)

\* a plausible slip: chunks_exact, which drops the remainder
RECURSIVE ChunksExact(_, _)
ChunksExact(v, size) ==
    IF Len(v) < size THEN <<>>
    ELSE <<SubSeq(v, 1, size)>> \o ChunksExact(SubSeq(v, size + 1, Len(v)), size)

divide_files_exact(fs, file_count) == ChunksExact(fs, file_count)

\* a plausible slip: each chunk collected back to front
Reverse(s) == [n \in 1..Len(s) |-> s[Len(s) + 1 - n]]

divide_files_rev(fs, file_count) ==
    LET c == Chunks(fs, file_count) IN [n \in 1..Len(c) |-> Reverse(c[n])]

divide_files(fs, file_count) == Chunks(fs, file_count)

\* format!("{}_{}.zip", dst.file_name(), i)
ArchiveFileName(i) == FileName(Dst) \o "_" \o ToString(i) \o ".zip"

\* dst.join("zip").join(filename)
ArchivePath(i) == Join(Join(Dst, "zip"), ArchiveFileName(i))

\* the record handed to the csv writer for item_name of block i
ManifestRecord(i, item_name) == <<ToString(i) \o ".zip", item_name>>

Header == <<"zip", "filename">>

\* the buffer get_file_as_byte_vec returns when its single read() call
\* delivers n bytes: metadata.len() zeroes, the first n overwritten
ReadBuffer(bytes, n) == [b \in 1..Len(bytes) |-> IF b <= n THEN bytes[b] ELSE 0]

\* what one read() into a buffer of len bytes may return on a file of len
\* bytes: any positive count up to len (0 only for the empty buffer)
ReadCounts(len) == IF len = 0 THEN {0} ELSE 1..len

\* --------------------------------------------------------------- the state
VARIABLES
    pc,             \* position in main()
    K,              \* args.file_count_per_file (i32)
    start,          \* the destination tree as the run found it
    dirs,           \* directories that exist
    others,         \* files under dst this run did not write
    csvExists,      \* dst/results.csv exists
    manifest,       \* the records of dst/results.csv, in order
    files,          \* search_files' result
    divided_files,  \* divide_files' result
    i,              \* index of the current block (0-based)
    j,              \* items of the current block already processed
    buffer,         \* the bytes read for the current item
    zips,           \* the archives created, in order
    file_pb,        \* position of the files progress bar
    block_pb,       \* position of the blocks progress bar
    exit,           \* "running", "ok", "err" (main returned Err), "panic"
    notified,       \* "Destination folder is not empty." was printed
    failed          \* an I/O operation has failed

vars == <<pc, K, start, dirs, others, csvExists, manifest, files, divided_files,
          i, j, buffer, zips, file_pb, block_pb, exit, notified, failed>>

ZipDir == Join(Dst, "zip")

\* a directory together with the directories above it
Ancestors(p) == {SubSeq(p, 1, n) : n \in 1..Len(p)}

CsvPath == Join(Dst, "results.csv")

\* dst.read_dir()?.next().is_none()
DirIsEmpty(d) ==
    /\ \A p \in dirs : Parent(p) # d
    /\ \A p \in others : Parent(p) # d
    /\ ~(csvExists /\ Parent(CsvPath) = d)

OldManifest == <<Header, <<"0.zip", "old">>>>

\* the destination trees a run can find: absent, empty, holding a foreign
\* file, holding the output of an earlier run
StartTrees ==
    { [kind |-> "absent", dirs |-> {}, others |-> {}, csvExists |-> FALSE,
       manifest |-> <<>>],
      [kind |-> "empty", dirs |-> Ancestors(Dst), others |-> {}, csvExists |-> FALSE,
       manifest |-> <<>>],
      [kind |-> "nonempty", dirs |-> Ancestors(Dst), others |-> {Join(Dst, "old.txt")},
       csvExists |-> FALSE, manifest |-> <<>>],
      [kind |-> "nonempty", dirs |-> Ancestors(ZipDir), others |-> {ArchivePath(0)},
       csvExists |-> TRUE, manifest |-> OldManifest] }

KValues == (0 - MaxNegK)..MaxK

Init ==
    /\ pc = "guard"
    /\ K \in KValues
    /\ start \in StartTrees
    /\ dirs = start.dirs
    /\ others = start.others
    /\ csvExists = start.csvExists
    /\ manifest = start.manifest
    /\ files = <<>>
    /\ divided_files = <<>>
    /\ i = 0
    /\ j = 0
    /\ buffer = <<>>
    /\ zips = <<>>
    /\ file_pb = 0
    /\ block_pb = 0
    /\ exit = "running"
    /\ notified = FALSE
    /\ failed = FALSE

\* -------------------------------------------------------- leaving main()
\* Drop of the ZipWriter that is still open: it finalizes the archive, and
\* an error of that finalization is only printed (fin = FALSE)
DropZip(zs, fin) ==
    IF zs # <<>> /\ ~zs[Len(zs)].finalized
    THEN [zs EXCEPT ![Len(zs)].finalized = fin]
    ELSE zs

\* `?` on an Err: main returns the error
Propagate ==
    /\ failed' = TRUE
    /\ exit' = "err"
    /\ pc' = "stopped"

\* the block and the item the loops of main() are at
Block == divided_files[i + 1]

Item == Block[j + 1]

\* start_file replacing the entries that already carry the name
WithEntryOverwrite(zs, name) ==
    [zs EXCEPT ![Len(zs)].entries =
        Append(SelectSeq(@, LAMBDA en : en.name # name),
               [name |-> name, data |-> <<>>, written |-> FALSE])]

\* ZipWriter::start_file: a new entry, no content yet
WithEntry(zs, name) ==
    [zs EXCEPT ![Len(zs)].entries =
        Append(@, [name |-> name, data |-> <<>>, written |-> FALSE])]

\* ZipWriter::write_all into the entry started last
WithData(zs, data, done) ==
    LET n == Len(zs[Len(zs)].entries)
    IN  [zs EXCEPT ![Len(zs)].entries[n].data = data,
                   ![Len(zs)].entries[n].written = done]

\* ------------------------------------------------------------- the actions
\* lines 64-72 with the emptiness test inverted
GuardInverted ==
    /\ pc = "guard"
    /\ \/ /\ Dst \in dirs
          /\ DirIsEmpty(Dst)
          /\ notified' = TRUE
          /\ exit' = "ok"
          /\ pc' = "stopped"
          /\ UNCHANGED <<dirs, failed>>
       \/ /\ Dst \in dirs
          /\ ~DirIsEmpty(Dst)
          /\ pc' = "search"
          /\ UNCHANGED <<dirs, notified, exit, failed>>
       \/ /\ Dst \notin dirs
          /\ dirs' = dirs \cup Ancestors(ZipDir)
          /\ pc' = "search"
          /\ UNCHANGED <<notified, exit, failed>>
       \/ /\ Dst \notin dirs
          /\ \E n \in 0..(Len(ZipDir) - 1) : dirs' = dirs \cup Ancestors(SubSeq(ZipDir, 1, n))
          /\ Propagate
          /\ UNCHANGED notified
    /\ UNCHANGED <<K, start, others, csvExists, manifest, files, divided_files,
                   i, j, buffer, zips, file_pb, block_pb>>

\* lines 64-72: the destination guard
Guard ==
    /\ pc = "guard"
    /\ \/ /\ Dst \in dirs
          /\ ~DirIsEmpty(Dst)
          /\ notified' = TRUE
          /\ exit' = "ok"
          /\ pc' = "stopped"
          /\ UNCHANGED <<dirs, failed>>
       \/ /\ Dst \in dirs
          /\ DirIsEmpty(Dst)
          /\ pc' = "search"
          /\ UNCHANGED <<dirs, notified, exit, failed>>
       \/ \* fs::create_dir_all(dst.join("zip"))
          /\ Dst \notin dirs
          /\ dirs' = dirs \cup Ancestors(ZipDir)
          /\ pc' = "search"
          /\ UNCHANGED <<notified, exit, failed>>
       \/ \* create_dir_all fails, after creating none or some of the directories
          /\ Dst \notin dirs
          /\ \E n \in 0..(Len(ZipDir) - 1) : dirs' = dirs \cup Ancestors(SubSeq(ZipDir, 1, n))
          /\ Propagate
          /\ UNCHANGED notified
    /\ UNCHANGED <<K, start, others, csvExists, manifest, files, divided_files,
                   i, j, buffer, zips, file_pb, block_pb>>

\* line 73 with the error of search_files replaced by an empty result
\* (unwrap_or_default) instead of `?`
SearchFilesLenient ==
    /\ pc = "search"
    /\ \/ /\ \E S \in SUBSET SourceIds : files' = SortedPaths(S)
          /\ pc' = "divide"
          /\ UNCHANGED <<exit, failed>>
       \/ /\ failed' = TRUE
          /\ files' = <<>>
          /\ pc' = "divide"
          /\ UNCHANGED exit
       \/ /\ failed' = TRUE
          /\ exit' = "panic"
          /\ pc' = "stopped"
          /\ UNCHANGED files
    /\ UNCHANGED <<K, start, dirs, others, csvExists, manifest, divided_files,
                   i, j, buffer, zips, file_pb, block_pb, notified>>

\* line 73 and search_files: the matched paths, a pattern error (`?`), or a
\* path that cannot be read during matching (e.unwrap() panics)
SearchFiles ==
    /\ pc = "search"
    /\ \/ /\ \E S \in SUBSET SourceIds : files' = SortedPaths(S)
          /\ pc' = "divide"
          /\ UNCHANGED <<exit, failed>>
       \/ /\ Propagate
          /\ UNCHANGED files
       \/ /\ failed' = TRUE
          /\ exit' = "panic"
          /\ pc' = "stopped"
          /\ UNCHANGED files
    /\ UNCHANGED <<K, start, dirs, others, csvExists, manifest, divided_files,
                   i, j, buffer, zips, file_pb, block_pb, notified>>

\* line 74: chunks() panics on a chunk size of zero
Divide ==
    /\ pc = "divide"
    /\ \/ /\ AsUsize(K) = 0
          /\ exit' = "panic"
          /\ pc' = "stopped"
          /\ UNCHANGED divided_files
       \/ /\ AsUsize(K) # 0
          /\ divided_files' = divide_files(files, AsUsize(K))
          /\ pc' = "create_csv"
          /\ UNCHANGED exit
    /\ UNCHANGED <<K, start, dirs, others, csvExists, manifest, files,
                   i, j, buffer, zips, file_pb, block_pb, notified, failed>>

\* lines 88-89: File::create(dst.join("results.csv")) creates or truncates
CreateCsv ==
    /\ pc = "create_csv"
    /\ \/ /\ Parent(CsvPath) \in dirs
          /\ csvExists' = TRUE
          /\ manifest' = <<>>
          /\ pc' = "header"
          /\ UNCHANGED <<exit, failed>>
       \/ /\ Propagate
          /\ UNCHANGED <<csvExists, manifest>>
    /\ UNCHANGED <<K, start, dirs, others, files, divided_files,
                   i, j, buffer, zips, file_pb, block_pb, notified>>

\* line 90
WriteHeader ==
    /\ pc = "header"
    /\ \/ /\ manifest' = Append(manifest, Header)
          /\ pc' = "block"
          /\ UNCHANGED <<exit, failed>>
       \/ /\ Propagate
          /\ UNCHANGED manifest
    /\ UNCHANGED <<K, start, dirs, others, csvExists, files, divided_files,
                   i, j, buffer, zips, file_pb, block_pb, notified>>

\* lines 91-99: the next block's archive is created
CreateZip ==
    /\ pc = "block"
    /\ i < Len(divided_files)
    /\ \/ /\ Parent(ArchivePath(i)) \in dirs
          /\ zips' = Append(zips, [path |-> ArchivePath(i), entries |-> <<>>,
                                   finalized |-> FALSE])
          /\ j' = 0
          /\ pc' = "item"
          /\ UNCHANGED <<exit, failed>>
       \/ \* File::create fails; it always does when dst/zip does not exist
          /\ Propagate
          /\ UNCHANGED <<zips, j>>
    /\ UNCHANGED <<K, start, dirs, others, csvExists, manifest, files,
                   divided_files, i, buffer, file_pb, block_pb, notified>>

\* line 110: the loop is over, main returns Ok(())
ReturnOk ==
    /\ pc = "block"
    /\ i = Len(divided_files)
    /\ exit' = "ok"
    /\ pc' = "stopped"
    /\ UNCHANGED <<K, start, dirs, others, csvExists, manifest, files,
                   divided_files, i, j, buffer, zips, file_pb, block_pb,
                   notified, failed>>

\* lines 100-102: zip.start_file(item_name, options)
StartFile ==
    /\ pc = "item"
    /\ j < Len(Block)
    /\ \/ /\ zips' = WithEntry(zips, FileName(Item))
          /\ pc' = "read"
          /\ UNCHANGED <<exit, failed>>
       \/ /\ Propagate
          /\ \E fin \in BOOLEAN : zips' = DropZip(zips, fin)
    /\ UNCHANGED <<K, start, dirs, others, csvExists, manifest, files,
                   divided_files, i, j, buffer, file_pb, block_pb, notified>>

\* line 103, the argument, with an unreadable file skipped instead of `?`
GetFileAsByteVecSkip ==
    /\ pc = "read"
    /\ \/ /\ \E n \in ReadCounts(Len(BytesOf(Item))) :
                 buffer' = ReadBuffer(BytesOf(Item), n)
          /\ pc' = "write"
          /\ UNCHANGED <<zips, exit, failed, j>>
       \/ /\ failed' = TRUE
          /\ j' = j + 1
          /\ pc' = "item"
          /\ UNCHANGED <<buffer, zips, exit>>
    /\ UNCHANGED <<K, start, dirs, others, csvExists, manifest, files,
                   divided_files, i, file_pb, block_pb, notified>>

\* line 103, the argument: get_file_as_byte_vec (lines 36-42); open,
\* metadata and read can each fail
GetFileAsByteVec ==
    /\ pc = "read"
    /\ \/ /\ \E n \in ReadCounts(Len(BytesOf(Item))) :
                 buffer' = ReadBuffer(BytesOf(Item), n)
          /\ pc' = "write"
          /\ UNCHANGED <<zips, exit, failed, j>>
       \/ /\ Propagate
          /\ \E fin \in BOOLEAN : zips' = DropZip(zips, fin)
          /\ UNCHANGED <<buffer, j>>
    /\ UNCHANGED <<K, start, dirs, others, csvExists, manifest, files,
                   divided_files, i, file_pb, block_pb, notified>>

\* line 103: zip.write_all(buffer); a failed write leaves a proper prefix
WriteAll ==
    /\ pc = "write"
    /\ \/ /\ zips' = WithData(zips, buffer, TRUE)
          /\ pc' = "record"
          /\ UNCHANGED <<exit, failed>>
       \/ /\ Propagate
          /\ \E m \in 0..(Len(buffer) - 1), fin \in BOOLEAN :
                 zips' = DropZip(WithData(zips, SubSeq(buffer, 1, m), FALSE), fin)
       \/ /\ Propagate
          /\ buffer = <<>>
          /\ \E fin \in BOOLEAN : zips' = DropZip(zips, fin)
    /\ UNCHANGED <<K, start, dirs, others, csvExists, manifest, files,
                   divided_files, i, j, buffer, file_pb, block_pb, notified>>

\* line 104 hoisted out of the inner loop: one record per block
WriteRecordPerBlock ==
    /\ pc = "record"
    /\ \/ /\ manifest' = IF j = 0
                         THEN Append(manifest, ManifestRecord(i, FileName(Item)))
                         ELSE manifest
          /\ pc' = "file_inc"
          /\ UNCHANGED <<zips, exit, failed>>
       \/ /\ Propagate
          /\ \E fin \in BOOLEAN : zips' = DropZip(zips, fin)
          /\ UNCHANGED manifest
    /\ UNCHANGED <<K, start, dirs, others, csvExists, files, divided_files,
                   i, j, buffer, file_pb, block_pb, notified>>

\* line 104: writer.write_record(&[format!("{}.zip", i), item_name])
WriteRecord ==
    /\ pc = "record"
    /\ \/ /\ manifest' = Append(manifest, ManifestRecord(i, FileName(Item)))
          /\ pc' = "file_inc"
          /\ UNCHANGED <<zips, exit, failed>>
       \/ /\ Propagate
          /\ \E fin \in BOOLEAN : zips' = DropZip(zips, fin)
          /\ UNCHANGED manifest
    /\ UNCHANGED <<K, start, dirs, others, csvExists, files, divided_files,
                   i, j, buffer, file_pb, block_pb, notified>>

\* line 105: file_pb.inc(1), and on to the next item
FileInc ==
    /\ pc = "file_inc"
    /\ file_pb' = file_pb + 1
    /\ j' = j + 1
    /\ pc' = "item"
    /\ UNCHANGED <<K, start, dirs, others, csvExists, manifest, files,
                   divided_files, i, buffer, zips, block_pb, exit, notified,
                   failed>>

\* line 107 left out of the loop: the archive stays open
ZipFinishDeferred ==
    /\ pc = "item"
    /\ j = Len(Block)
    /\ \/ /\ pc' = "block_inc"
          /\ UNCHANGED <<zips, exit, failed>>
       \/ /\ Propagate
          /\ \E fin \in BOOLEAN : zips' = DropZip(zips, fin)
    /\ UNCHANGED <<K, start, dirs, others, csvExists, manifest, files,
                   divided_files, i, j, buffer, file_pb, block_pb, notified>>

\* line 107: zip.finish() after the block's last item
ZipFinish ==
    /\ pc = "item"
    /\ j = Len(Block)
    /\ \/ /\ zips' = [zips EXCEPT ![Len(zips)].finalized = TRUE]
          /\ pc' = "block_inc"
          /\ UNCHANGED <<exit, failed>>
       \/ /\ Propagate
          /\ \E fin \in BOOLEAN : zips' = DropZip(zips, fin)
    /\ UNCHANGED <<K, start, dirs, others, csvExists, manifest, files,
                   divided_files, i, j, buffer, file_pb, block_pb, notified>>

\* line 108: block_pb.inc(1), and on to the next block
BlockInc ==
    /\ pc = "block_inc"
    /\ block_pb' = block_pb + 1
    /\ i' = i + 1
    /\ pc' = "block"
    /\ UNCHANGED <<K, start, dirs, others, csvExists, manifest, files,
                   divided_files, j, buffer, zips, file_pb, exit, notified,
                   failed>>

Next ==
    \/ Guard
    \/ SearchFiles
    \/ Divide
    \/ CreateCsv
    \/ WriteHeader
    \/ CreateZip
    \/ ReturnOk
    \/ StartFile
    \/ GetFileAsByteVec
    \/ WriteAll
    \/ WriteRecord
    \/ FileInc
    \/ ZipFinish
    \/ BlockInc

Spec == Init /\ [][Next]_vars

\* ------------------------------------------------------ notions of the claims
\* the number of matched files
N == Len(files)

Ceil(n, k) == (n + k - 1) \div k

\* main() ran its loop to the end and returned Ok(())
Completed == pc = "stopped" /\ exit = "ok" /\ ~notified

\* the run got past the destination guard, so the manifest is its own
PastGuard == pc # "guard" /\ ~notified

\* the manifest without its header
DataRows == IF Len(manifest) <= 1 THEN <<>> ELSE SubSeq(manifest, 2, Len(manifest))

\* the names of the entries of the archives, archive after archive
RECURSIVE EntryNames(_)
EntryNames(zs) ==
    IF zs = <<>> THEN <<>>
    ELSE EntryNames(SubSeq(zs, 1, Len(zs) - 1))
         \o [e \in 1..Len(zs[Len(zs)].entries) |-> zs[Len(zs)].entries[e].name]

\* the block (0-based) and the place in it (1-based) of the d-th matched file
BlockOf(d) == (d - 1) \div AsUsize(K)

PlaceOf(d) == d - BlockOf(d) * AsUsize(K)

\* ---------------------------------------------------------------- the claims
\* C1: every manifest data row written by the run carries, as its archive
\* field, the file name of the archive that holds the entry:
\* <destination-base-name>_<i>.zip for the block i of the row's file.
C1_RowNamesItsArchive ==
    (PastGuard /\ K > 0) =>
        \A d \in 1..Len(DataRows) :
            /\ DataRows[d][1] = ArchiveFileName(BlockOf(d))
            /\ BlockOf(d) + 1 <= Len(zips)
            /\ DataRows[d][1] = FileName(zips[BlockOf(d) + 1].path)

\* C2: with K > 0 and no failure the run creates ceil(N/K) archives, named
\* by the indices 0..ceil(N/K)-1, and archive i receives min(K, N - i*K)
\* entries.
C2_ArchiveCountAndSizes ==
    (Completed /\ K > 0) =>
        /\ Len(zips) = Ceil(N, K)
        /\ \A z \in 1..Len(zips) :
               /\ zips[z].path = ArchivePath(z - 1)
               /\ Len(zips[z].entries) = Min(K, N - (z - 1) * K)

\* C2's case: a completed run with several archives, the last one short
C2_Witness ==
    /\ Completed
    /\ K > 0
    /\ Len(zips) >= 2
    /\ Len(zips[Len(zips)].entries) < K
    /\ Len(zips[1].entries) = K

\* C3: with no failure the manifest is the header followed by exactly one
\* row per matched file (N rows); with N = 0 it is the header alone and no
\* archive is created.
C3_ManifestRows ==
    Completed =>
        /\ csvExists
        /\ Len(manifest) = N + 1
        /\ manifest[1] = Header
        /\ \A n \in 1..N : manifest[n + 1][2] = FileName(files[n])
        /\ (N = 0 => zips = <<>>)

\* C3's case: a completed run over several files in several blocks
C3_Witness ==
    /\ Completed
    /\ N >= 3
    /\ Len(divided_files) >= 2
    /\ Len(manifest) = N + 1

\* C4: with no failure, archive i holds, in order, the base names of the
\* files at positions i*K .. min(N,(i+1)*K)-1 of the enumeration; the
\* archives one after the other give the enumeration back, and so do the
\* manifest rows.
C4_OrderPreserved ==
    (Completed /\ K > 0) =>
        /\ \A z \in 1..Len(zips) :
               [e \in 1..Len(zips[z].entries) |-> zips[z].entries[e].name]
                   = [e \in 1..(Min(N, z * K) - (z - 1) * K)
                          |-> FileName(files[(z - 1) * K + e])]
        /\ EntryNames(zips) = [n \in 1..N |-> FileName(files[n])]
        /\ [d \in 1..Len(DataRows) |-> DataRows[d][2]]
               = [n \in 1..N |-> FileName(files[n])]

\* C4's case: a completed run whose files spread over two full blocks or more
C4_Witness ==
    /\ Completed
    /\ K >= 2
    /\ N >= 2 * K
    /\ Len(zips) >= 2
    /\ Len(zips[2].entries) = K

\* C5: the bytes stored for every written entry are the bytes of its source
\* file, whatever the single read() call returns within its contract.
C5_StoredBytesIdentical ==
    K > 0 => \A z \in 1..Len(zips) :
        \A e \in 1..Len(zips[z].entries) :
            zips[z].entries[e].written =>
                zips[z].entries[e].data = BytesOf(divided_files[z][e])

\* C6: a K that is zero or negative is reported as an error and is never
\* turned into another chunk size that partitions the files and builds
\* archives.
C6_NonPositiveKRejected ==
    (K <= 0 /\ PastGuard) =>
        /\ divided_files = <<>>
        /\ zips = <<>>
        /\ (pc = "stopped" => exit \in {"err", "panic"})

C8_RowsHaveFullEntries ==
    (pc = "stopped" /\ PastGuard /\ K > 0) =>
        \A d \in 1..Len(DataRows) :
            /\ BlockOf(d) + 1 <= Len(zips)
            /\ PlaceOf(d) <= Len(zips[BlockOf(d) + 1].entries)
            /\ LET entry == zips[BlockOf(d) + 1].entries[PlaceOf(d)]
               IN  /\ entry.name = DataRows[d][2]
                   /\ entry.written
                   /\ entry.data = BytesOf(files[d])

\* C9: after an abort on an I/O failure the manifest rows are exactly the
\* record of the archives' entries: no archive holds an entry, started or
\* complete, of a file without a manifest row.
C9_AbortLeavesNoUnrecordedEntry ==
    (pc = "stopped" /\ exit = "err" /\ PastGuard /\ K > 0) =>
        EntryNames(zips) = [d \in 1..Len(DataRows) |-> DataRows[d][2]]

C11_OneArchiveAtATime ==
    /\ [](\A z \in 1..Len(zips) :
              /\ zips[z].path = ArchivePath(z - 1)
              /\ (z < Len(zips) => zips[z].finalized))
    /\ [][Len(zips') # Len(zips) =>
              /\ Len(zips') = Len(zips) + 1
              /\ i = Len(zips)
              /\ \A z \in 1..Len(zips) : zips[z].finalized]_vars
    /\ [][\A z \in 1..Len(zips) : zips[z].finalized => zips'[z] = zips[z]]_vars

\* C11's case: a second archive is open after the first was finalized with
\* its entries
C11_Witness ==
    /\ Len(zips) >= 2
    /\ zips[1].finalized
    /\ zips[1].entries # <<>>
    /\ ~zips[2].finalized
    /\ zips[2].entries # <<>>

\* the d-th matched file has its entry, complete and with the file's bytes,
\* in the archive of its block
FullyWritten(d) ==
    /\ BlockOf(d) + 1 <= Len(zips)
    /\ PlaceOf(d) <= Len(zips[BlockOf(d) + 1].entries)
    /\ LET entry == zips[BlockOf(d) + 1].entries[PlaceOf(d)]
       IN  entry.written /\ entry.data = BytesOf(files[d])

\* C12: in every state the files counter is at most the number of files
\* both fully written to their archive and recorded in the manifest, and
\* the groups counter is at most the number of finalized archives.
C12_CountersAreLowerBounds ==
    (PastGuard /\ K > 0) =>
        /\ file_pb <= Cardinality({d \in 1..Len(DataRows) : FullyWritten(d)})
        /\ block_pb <= Cardinality({z \in 1..Len(zips) : zips[z].finalized})

\* C13: when enumeration fails (pattern error, or a path that cannot be
\* read during matching) the run ends with an error in that very step, with
\* no archive file and no manifest file created.
C13_EnumerationFailureBeforeOutput ==
    [][(pc = "search" /\ failed') =>
           /\ pc' = "stopped"
           /\ exit' \in {"err", "panic"}
           /\ zips' = <<>>
           /\ ~csvExists'
           /\ manifest' = <<>>
           /\ divided_files' = <<>>]_vars

\* C13's case: the run was stopped by the panic of e.unwrap(), which only
\* enumeration raises with a failure, after the guard created the
\* directories
C13_Witness ==
    /\ pc = "stopped"
    /\ failed
    /\ exit = "panic"
    /\ start.kind = "absent"
    /\ ZipDir \in dirs

\* pairs of matched files, first and second, of one block with one base name
SameNamePairs ==
    {p \in (1..N) \X (1..N) :
        /\ p[1] < p[2]
        /\ BlockOf(p[1]) = BlockOf(p[2])
        /\ FileName(files[p[1]]) = FileName(files[p[2]])}

\* the places of the entries of archive z (1-based) that carry the name
EntriesNamed(z, name) ==
    {e \in 1..Len(zips[z].entries) : zips[z].entries[e].name = name}

\* C14 as stated: with two files of one block sharing a base name the run
\* completes, the archive ends with one entry of that name (the second
\* file's), and the manifest has a row for each.
C14_SecondOverwritesFirst ==
    (Completed /\ K > 0) =>
        \A p \in SameNamePairs :
            /\ Cardinality(EntriesNamed(BlockOf(p[1]) + 1, FileName(files[p[1]]))) = 1
            /\ DataRows[p[1]][2] = FileName(files[p[1]])
            /\ DataRows[p[2]][2] = FileName(files[p[2]])

\* C14 amended: in a run that completes, two files of one block sharing a
\* base name each have their own entry in the block's archive, at the
\* places of the two files and both under that name (the first is neither
\* replaced nor dropped), and the manifest has a row for each.
C14_BothEntriesKept ==
    (Completed /\ K > 0) =>
        \A p \in SameNamePairs :
            LET z == BlockOf(p[1]) + 1
                name == FileName(files[p[1]])
            IN  /\ z <= Len(zips)
                /\ PlaceOf(p[2]) <= Len(zips[z].entries)
                /\ zips[z].entries[PlaceOf(p[1])].name = name
                /\ zips[z].entries[PlaceOf(p[1])].written
                /\ zips[z].entries[PlaceOf(p[2])].name = name
                /\ zips[z].entries[PlaceOf(p[2])].written
                /\ {PlaceOf(p[1]), PlaceOf(p[2])} \subseteq EntriesNamed(z, name)
                /\ DataRows[p[1]][2] = name
                /\ DataRows[p[2]][2] = name

\* C14's case: a completed run with two files of one base name in a block
C14_Witness ==
    /\ Completed
    /\ K > 0
    /\ SameNamePairs # {}

\* C15: per file the order is entry written with the file's full bytes,
\* then manifest row, then files counter, then the next file's entry: every
\* row present has its entry complete with the file's bytes, the counter is
\* never ahead of the rows nor more than one behind, and at most one entry
\* exists beyond the files counted.
C15_PerFileOrder ==
    (PastGuard /\ K > 0) =>
        /\ \A d \in 1..Len(DataRows) : FullyWritten(d)
        /\ file_pb <= Len(DataRows)
        /\ Len(DataRows) <= file_pb + 1
        /\ Len(EntryNames(zips)) <= file_pb + 1

\* C16: in every run past the guard, whether the destination was absent or
\* present and empty, the directory dst/zip exists at the moment an archive
\* file is about to be created.
C16_ZipDirExistsAtCreate ==
    (pc = "block" /\ i < Len(divided_files)) => Parent(ArchivePath(i)) \in dirs

====
